---- MODULE Spec2Model ----
(***************************************************************************)
(* Model of rosbridge_library/internal/publishers.py:                      *)
(*   PublisherConsistencyListener, MultiPublisher, PublisherManager.       *)
(*                                                                         *)
(* Every method of PublisherManager is translated statement by statement   *)
(* into the operator Step, which advances one call frame by one statement. *)
(* Spec runs every call to completion in one action (the callers do not    *)
(* interleave); SpecC lets the frames of several threads interleave        *)
(* statement by statement, as the code takes no lock.                      *)
(***************************************************************************)
EXTENDS Integers, Sequences, FiniteSets, TLC

\* ------------------------------------------------------------- bounds
MaxPub == 2        \* MultiPublisher objects alive at one time
MaxTime == 2       \* the clock runs from 0 to MaxTime
MaxBuf == 1        \* messages one listener buffers
MaxReg == 2        \* C20: times one client registers on one topic
MaxMsg == 2        \* SpecL: messages the publishing thread sends

\* ------------------------------------------------- inputs of the calls
Clients == {"A", "B"}
Topics == {"/a", "/b"}
None == "None"
LoadableTypes == {"std_msgs/String", "visualization_msgs/Marker"}
BadType == "no_pkg/Missing"
TypeNames == LoadableTypes \cup {BadType}
Msgs == {"m1", "bad"}
Threads == {1, 2}
Peers == {"p", "q"}

\* PublisherConsistencyListener.timeout
timeout == 1

VARIABLES
    publishers,   \* PublisherManager._publishers: topic -> object id, 0 = no key
    objs,         \* the heap: object id -> MultiPublisher object, or FreeObj
    now,          \* what time() returns now
    threads,      \* SpecC: the call frame of each thread
    last,         \* Spec: the last call that returned, and what it did
    live,         \* Spec: topic -> clients whose register or publish call
                  \* registered them and who have not unregistered since
    torn,         \* Spec: the topics whose key has been deleted at least once
    listener,     \* SpecL: one PublisherConsistencyListener and the
                  \* publisher it attaches to
    connections,  \* SpecL: publisher.impl.connections, the connected peers
    received,     \* SpecL: peer -> what the transport delivered to it
    ctor,         \* SpecL: where MultiPublisher.__init__ is
    pub,          \* SpecL: the frame of the thread that publishes
    sub           \* SpecL: peer -> the frame of its connection thread

lvars == <<listener, connections, received, ctor, pub, sub>>

vars == <<publishers, objs, now, threads, last, live, torn, lvars>>

\* A heap slot that holds no object.
FreeObj ==
    [topic |-> None, msg_class |-> [_type |-> None, slots |-> {}],
     clients |-> {}, open |-> FALSE, attached |-> FALSE,
     established_time |-> 0, msg_buffer |-> <<>>]

IsFree(o) == o.topic = None

\* ------------------------------------------- external collaborators

\* ros_loader.get_message_class: the class of a loadable type name. A class
\* is known by its _type and its __slots__ (the message's field names, which
\* are class attributes); an unknown name raises.
Slots(msg_type) ==
    IF msg_type = "visualization_msgs/Marker" THEN {"ns", "id", "type"}
    ELSE {"data"}

loads(msg_type) == msg_type \in LoadableTypes

get_message_class(msg_type) ==
    [_type |-> msg_type, slots |-> Slots(msg_type)]

\* message_conversion.populate_instance: raises on a message that does not
\* conform to the class.
populate_raises(msg) == msg = "bad"

\* ---------------------------------- PublisherConsistencyListener

timed_out(o, t) == t - o.established_time > timeout

\* attach: the listener's state variables after attach
attach(o, t) ==
    [o EXCEPT !.established_time = t, !.msg_buffer = <<>>, !.attached = TRUE]

detach(o) == [o EXCEPT !.attached = FALSE]

\* Mutant of publish_override: the message is buffered but the original
\* publish is not called.
publish_override_silent(o, msg, t) ==
    [o |-> IF ~timed_out(o, t)
           THEN [o EXCEPT !.msg_buffer = Append(@, msg)] ELSE o,
     exc |-> "none", sent |-> <<>>]

\* publish_override: buffers inside the window, then the original publish.
\* The original publish on an unregistered rospy Publisher raises.
publish_override(o, msg, t) ==
    LET b == IF ~timed_out(o, t)
             THEN [o EXCEPT !.msg_buffer = Append(@, msg)] ELSE o
    IN  IF b.open THEN [o |-> b, exc |-> "none", sent |-> <<msg>>]
        ELSE [o |-> b, exc |-> "ClosedHandle", sent |-> <<>>]

\* The listener statement by statement, for the threads of SpecL. An
\* attribute that attach has not assigned yet does not exist: attrs holds
\* the names of the instance attributes that do. hooked: publisher.publish
\* is publish_override; listening: the listener is in
\* publisher.impl.subscriber_listeners.
NewListener ==
    [hooked |-> FALSE, listening |-> FALSE, attrs |-> {},
     established_time |-> 0, msg_buffer |-> <<>>, attached |-> FALSE]

attach_35(l) == [l EXCEPT !.listening = TRUE]

attach_37(l) == [l EXCEPT !.hooked = TRUE]

attach_40(l) == [l EXCEPT !.attrs = @ \cup {"lock"}]

attach_41(l, t) ==
    [l EXCEPT !.attrs = @ \cup {"established_time"}, !.established_time = t]

attach_42(l) ==
    [l EXCEPT !.attrs = @ \cup {"msg_buffer"}, !.msg_buffer = <<>>]

attach_43(l) == [l EXCEPT !.attached = TRUE]

\* Mutant of detach_48: publisher.publish is not restored.
detach_48_keeps(l) == l

detach_48(l) == [l EXCEPT !.hooked = FALSE]

detach_49(l) == [l EXCEPT !.listening = FALSE]

detach_51(l) == [l EXCEPT !.attached = FALSE]

\* the frame of a peer's connection thread: msgs is the local copy of the
\* buffer still to be sent, late whether timed_out() returned true
AwayFrame == [pc |-> "away", msgs |-> <<>>, exc |-> "none", late |-> FALSE]

\* Mutant of peer_subscribe_62: a timed out listener is detached by the
\* connection thread.
peer_subscribe_62_detaches(l, f, t) ==
    IF "established_time" \notin l.attrs
    THEN [l |-> l, f |-> [f EXCEPT !.pc = "done", !.exc = "AttributeError"]]
    ELSE IF ~timed_out(l, t) THEN [l |-> l, f |-> [f EXCEPT !.pc = "L63"]]
         ELSE [l |-> detach_51(detach_49(detach_48(l))),
               f |-> [f EXCEPT !.pc = "done", !.late = TRUE]]

\* peer_subscribe, line 62: [l, f], the listener and the frame afterwards;
\* timed_out() reads self.established_time
peer_subscribe_62(l, f, t) ==
    IF "established_time" \notin l.attrs
    THEN [l |-> l, f |-> [f EXCEPT !.pc = "done", !.exc = "AttributeError"]]
    ELSE IF ~timed_out(l, t) THEN [l |-> l, f |-> [f EXCEPT !.pc = "L63"]]
         ELSE [l |-> l, f |-> [f EXCEPT !.pc = "done", !.late = TRUE]]

\* peer_subscribe, lines 63-65: [l, f]; the copy of the buffer, under the
\* lock
peer_subscribe_63(l, f) ==
    IF {"lock", "msg_buffer"} \subseteq l.attrs
    THEN [l |-> l, f |-> [f EXCEPT !.pc = "L66", !.msgs = l.msg_buffer]]
    ELSE [l |-> l, f |-> [f EXCEPT !.pc = "done", !.exc = "AttributeError"]]

\* peer_subscribe, lines 66-67: [l, f, out]; out is what one turn of the
\* loop hands to peer_publish
peer_subscribe_66(l, f) ==
    IF f.msgs = <<>>
    THEN [l |-> l, f |-> [f EXCEPT !.pc = "done"], out |-> <<>>]
    ELSE [l |-> l, f |-> [f EXCEPT !.msgs = Tail(@)],
          out |-> <<Head(f.msgs)>>]

\* publish_override, line 78: the statement that follows
publish_override_78(l, t) == IF ~timed_out(l, t) THEN "L79" ELSE "L82"

\* Mutant of publish_override_79: the message goes to the front of the
\* buffer.
publish_override_79_front(l, msg) == [l EXCEPT !.msg_buffer = <<msg>> \o @]

\* publish_override, lines 79-81: the append, under the lock
publish_override_79(l, msg) == [l EXCEPT !.msg_buffer = Append(@, msg)]

\* ------------------------------------------------- MultiPublisher

\* Mutant of init_msg_type: the established type never replaces a missing
\* msg_type.
init_msg_type_forgets(msg_type, ttype) == msg_type

\* __init__, lines 112-117: the type the publisher gets, None when neither
\* the caller nor the topic gives one
init_msg_type(msg_type, ttype) == IF msg_type = None THEN ttype ELSE msg_type

\* __init__: [exc, o]; o is the new object when exc = "none"
MultiPublisher_init(topic, msg_type, ttype, t) ==
    IF init_msg_type(msg_type, ttype) = None
    THEN [exc |-> "TopicNotEstablishedException"]
    ELSE LET mt == init_msg_type(msg_type, ttype)
         IN  IF ~loads(mt) THEN [exc |-> "LoaderError"]
             ELSE LET msg_class == get_message_class(mt)
                  IN  IF ttype # None /\ ttype # msg_class._type
                      THEN \* line 124 reads msg_class.type, not _type
                           IF "type" \in msg_class.slots
                           THEN [exc |-> "TypeConflictException"]
                           ELSE [exc |-> "AttributeError"]
                      ELSE [exc |-> "none",
                            o |-> attach([topic |-> topic,
                                          msg_class |-> msg_class,
                                          clients |-> {},
                                          open |-> TRUE,
                                          attached |-> FALSE,
                                          established_time |-> 0,
                                          msg_buffer |-> <<>>], t)]

\* Mutant of MultiPublisher_unregister: the rospy Publisher stays registered.
MultiPublisher_unregister_leaks(o) == [o EXCEPT !.clients = {}]

\* unregister: closes the rospy Publisher and clears the clients
MultiPublisher_unregister(o) == [o EXCEPT !.open = FALSE, !.clients = {}]

\* Mutant of verify_type: any loadable type passes.
verify_type_loads(o, msg_type) ==
    IF ~loads(msg_type) THEN "LoaderError" ELSE "none"

\* verify_type: the exception raised, or "none"
verify_type(o, msg_type) ==
    IF ~loads(msg_type) THEN "LoaderError"
    ELSE IF get_message_class(msg_type) # o.msg_class
         THEN "TypeConflictException"
         ELSE "none"

\* publish: [o, exc, sent]
MultiPublisher_publish(o, msg, t) ==
    LET due == o.attached /\ timed_out(o, t)
    IN  IF due /\ ~o.open
        THEN [o |-> o, exc |-> "ClosedHandle", sent |-> <<>>]
        ELSE LET d == IF due THEN detach(o) ELSE o
             IN  IF populate_raises(msg)
                 THEN [o |-> d, exc |-> "MalformedMessage", sent |-> <<>>]
                 ELSE IF d.attached THEN publish_override(d, msg, t)
                      ELSE IF d.open
                           THEN [o |-> d, exc |-> "none", sent |-> <<msg>>]
                           ELSE [o |-> d, exc |-> "ClosedHandle",
                                 sent |-> <<>>]

register_client(o, client_id) == [o EXCEPT !.clients = @ \cup {client_id}]

\* Mutant of unregister_client: the last client is not removed.
unregister_client_last(o, client_id) ==
    IF Cardinality(o.clients) > 1
    THEN [o EXCEPT !.clients = @ \ {client_id}] ELSE o

unregister_client(o, client_id) == [o EXCEPT !.clients = @ \ {client_id}]

\* Mutant of has_clients: one client does not count.
has_clients_many(o) == Cardinality(o.clients) > 1

has_clients(o) == Cardinality(o.clients) # 0


\* ------------------------------------------------ PublisherManager

\* One call frame: the method, its arguments, the statement it is at (pc,
\* named by source line), the object reference it holds between a lookup or
\* a construction and its use (obj), the topics unregister_all still has to
\* visit (keys), and what the call did: the exception it raised, what it
\* sent to the transport, whether it registered its client, removed it from
\* a client set, constructed (made) or closed a MultiPublisher.
IdleFrame ==
    [op |-> "idle", client_id |-> None, topic |-> None, msg_type |-> None,
     msg |-> None, pc |-> "idle", exc |-> "none", obj |-> 0, keys |-> {},
     sent |-> <<>>, reg |-> FALSE, removed |-> FALSE, made |-> FALSE,
     closed |-> FALSE]

NewFrame(op, client_id, topic, msg_type, msg) ==
    [IdleFrame EXCEPT !.op = op, !.client_id = client_id, !.topic = topic,
                      !.msg_type = msg_type, !.msg = msg,
                      !.pc = CASE op = "unregister" -> "L256"
                               [] op = "unregister_all" -> "L271"
                               [] OTHER -> "L237"]

\* topic in self._publishers
in_publishers(G, topic) == G.publishers[topic] # 0

\* self._publishers.keys()
keys(G) == {t \in Topics : G.publishers[t] # 0}

Goto(G, F, pc) == [G |-> G, F |-> [F EXCEPT !.pc = pc]]

Raise(G, F, e) == [G |-> G, F |-> [F EXCEPT !.pc = "done", !.exc = e]]

SetObj(G, id, o) == [G EXCEPT !.objs[id] = o]

FreeSlots(G) == {i \in 1..MaxPub : IsFree(G.objs[i])}

\* Mutant of register_237: the constructor is called whether or not the
\* topic has a key.
register_237_always(G, F) == Goto(G, F, "L238")

\* register, line 237
register_237(G, F) ==
    IF ~in_publishers(G, F.topic) THEN Goto(G, F, "L238")
    ELSE Goto(G, F, "L240")

\* register, line 238, right-hand side: the constructor call. tt is what
\* get_topic_type returns to it. With the heap full the frame is stuck.
register_238(G, F, tt, t) ==
    LET r == MultiPublisher_init(F.topic, F.msg_type, tt, t)
    IN  IF r.exc # "none" THEN Raise(G, F, r.exc)
        ELSE IF FreeSlots(G) = {} THEN Goto(G, F, "stuck")
        ELSE LET id == CHOOSE i \in FreeSlots(G) :
                            \A j \in FreeSlots(G) : i <= j
             IN  [G |-> SetObj(G, id, r.o),
                  F |-> [F EXCEPT !.obj = id, !.made = TRUE, !.pc = "L238s"]]

\* register, line 238: the store into self._publishers[topic]
register_238s(G, F) ==
    [G |-> [G EXCEPT !.publishers[F.topic] = F.obj],
     F |-> [F EXCEPT !.obj = 0, !.pc = "L240"]]

\* Mutant of register_240: the client is registered before the type is
\* verified.
register_240_late(G, F) ==
    LET id == G.publishers[F.topic]
    IN  IF F.msg_type = None THEN Goto(G, F, "L243")
        ELSE IF id = 0 THEN Raise(G, F, "KeyError")
        ELSE LET e == verify_type(G.objs[id], F.msg_type)
                 H == SetObj(G, id, register_client(G.objs[id], F.client_id))
             IN  IF e # "none" THEN Raise(H, F, e) ELSE Goto(H, F, "L243")

\* register, lines 240-241
register_240(G, F) ==
    LET id == G.publishers[F.topic]
    IN  IF F.msg_type = None THEN Goto(G, F, "L243")
        ELSE IF id = 0 THEN Raise(G, F, "KeyError")
        ELSE LET e == verify_type(G.objs[id], F.msg_type)
             IN  IF e # "none" THEN Raise(G, F, e) ELSE Goto(G, F, "L243")

\* register, line 243
register_243(G, F) ==
    LET id == G.publishers[F.topic]
    IN  IF id = 0 THEN Raise(G, F, "KeyError")
        ELSE [G |-> SetObj(G, id, register_client(G.objs[id], F.client_id)),
              F |-> [F EXCEPT !.reg = TRUE,
                              !.pc = IF F.op = "publish" THEN "L292"
                                     ELSE "done"]]

\* return from unregister: to the loop of unregister_all, or to the caller
ReturnUnregister(G, F) ==
    IF F.op = "unregister_all" THEN Goto(G, F, "L272") ELSE Goto(G, F, "done")

\* unregister, lines 256-257
unregister_256(G, F) ==
    IF ~in_publishers(G, F.topic) THEN ReturnUnregister(G, F)
    ELSE Goto(G, F, "L259")

\* unregister, line 259
unregister_259(G, F) ==
    LET id == G.publishers[F.topic]
    IN  IF id = 0 THEN Raise(G, F, "KeyError")
        ELSE [G |-> SetObj(G, id, unregister_client(G.objs[id], F.client_id)),
              F |-> [F EXCEPT !.removed = @ \/ F.client_id \in G.objs[id].clients,
                              !.pc = "L261"]]

\* unregister, line 261
unregister_261(G, F) ==
    LET id == G.publishers[F.topic]
    IN  IF id = 0 THEN Raise(G, F, "KeyError")
        ELSE IF has_clients(G.objs[id]) THEN ReturnUnregister(G, F)
        ELSE Goto(G, F, "L262")

\* unregister, line 262
unregister_262(G, F) ==
    LET id == G.publishers[F.topic]
    IN  IF id = 0 THEN Raise(G, F, "KeyError")
        ELSE [G |-> SetObj(G, id, MultiPublisher_unregister(G.objs[id])),
              F |-> [F EXCEPT !.closed = TRUE, !.pc = "L263"]]

\* Mutant of unregister_263: the key is not deleted.
unregister_263_keeps(G, F) ==
    IF G.publishers[F.topic] = 0 THEN Raise(G, F, "KeyError")
    ELSE ReturnUnregister(G, F)

\* unregister, line 263
unregister_263(G, F) ==
    IF G.publishers[F.topic] = 0 THEN Raise(G, F, "KeyError")
    ELSE ReturnUnregister([G EXCEPT !.publishers[F.topic] = 0], F)

\* unregister_all, line 271: keys() is a list, a snapshot of the keys
unregister_all_271(G, F) ==
    [G |-> G, F |-> [F EXCEPT !.keys = keys(G), !.pc = "L272"]]

\* Mutant of unregister_all_272: the loop ends after the first topic.
unregister_all_272_once(G, F) ==
    IF F.keys = {} \/ F.topic # None
    THEN [G |-> G, F |-> [F EXCEPT !.topic = None, !.pc = "done"]]
    ELSE LET k == CHOOSE k \in F.keys : TRUE
         IN  [G |-> G,
              F |-> [F EXCEPT !.topic = k, !.keys = @ \ {k}, !.pc = "L256"]]

\* unregister_all, lines 271-272: the next topic of the snapshot
unregister_all_272(G, F) ==
    IF F.keys = {}
    THEN [G |-> G, F |-> [F EXCEPT !.topic = None, !.pc = "done"]]
    ELSE LET k == CHOOSE k \in F.keys : TRUE
         IN  [G |-> G,
              F |-> [F EXCEPT !.topic = k, !.keys = @ \ {k}, !.pc = "L256"]]

\* publish, line 292: the lookup self._publishers[topic]
publish_292(G, F) ==
    IF G.publishers[F.topic] = 0 THEN Raise(G, F, "KeyError")
    ELSE [G |-> G,
          F |-> [F EXCEPT !.obj = G.publishers[F.topic], !.pc = "L292p"]]

\* publish, line 292: the call of MultiPublisher.publish on what was found
publish_292p(G, F, t) ==
    LET r == MultiPublisher_publish(G.objs[F.obj], F.msg, t)
    IN  [G |-> SetObj(G, F.obj, r.o),
         F |-> [F EXCEPT !.obj = 0, !.sent = r.sent, !.exc = r.exc,
                         !.pc = "done"]]

\* One statement of the frame F in the state G.
Step(G, F, tt, t) ==
    CASE F.pc = "L237" -> register_237(G, F)
      [] F.pc = "L238" -> register_238(G, F, tt, t)
      [] F.pc = "L238s" -> register_238s(G, F)
      [] F.pc = "L240" -> register_240(G, F)
      [] F.pc = "L243" -> register_243(G, F)
      [] F.pc = "L256" -> unregister_256(G, F)
      [] F.pc = "L259" -> unregister_259(G, F)
      [] F.pc = "L261" -> unregister_261(G, F)
      [] F.pc = "L262" -> unregister_262(G, F)
      [] F.pc = "L263" -> unregister_263(G, F)
      [] F.pc = "L271" -> unregister_all_271(G, F)
      [] F.pc = "L272" -> unregister_all_272(G, F)
      [] F.pc = "L292" -> publish_292(G, F)
      [] F.pc = "L292p" -> publish_292p(G, F, t)

\* An object nothing refers to any more is freed once its Publisher is
\* closed: after del self._publishers[topic] the registry drops it. refs are
\* the ids the call frames hold.
Collect(G, refs) ==
    [G EXCEPT !.objs =
        [i \in 1..MaxPub |->
            IF /\ ~G.objs[i].open
               /\ i \notin refs
               /\ \A t \in Topics : G.publishers[t] # i
            THEN FreeObj ELSE G.objs[i]]]

\* The call F run to its return with no other caller in between.
RECURSIVE RunFrom(_, _, _)
RunFrom(s, tt, t) ==
    IF s.F.pc \in {"done", "stuck"} THEN [G |-> Collect(s.G, {}), F |-> s.F]
    ELSE RunFrom(Step(s.G, s.F, tt, t), tt, t)

Run(G, F, tt, t) == RunFrom([G |-> G, F |-> F], tt, t)

\* What a returned call leaves in `last`.
Result(F) ==
    [op |-> F.op, client_id |-> F.client_id, topic |-> F.topic,
     msg_type |-> F.msg_type, exc |-> F.exc, sent |-> F.sent, reg |-> F.reg,
     removed |-> F.removed, made |-> F.made, closed |-> F.closed]

\* The clients that hold a registration after the call F returned.
LiveAfter(lv, F) ==
    CASE F.op \in {"register", "publish"} ->
            IF F.reg THEN [lv EXCEPT ![F.topic] = @ \cup {F.client_id}] ELSE lv
      [] F.op = "unregister" -> [lv EXCEPT ![F.topic] = @ \ {F.client_id}]
      [] F.op = "unregister_all" -> [t \in Topics |-> lv[t] \ {F.client_id}]

\* The topics whose key a call deleted, added to tn: G is the state before
\* the call and H the state after it.
TornAfter(tn, G, H) ==
    tn \cup {t \in Topics : G.publishers[t] # 0 /\ H.publishers[t] = 0}

\* ------------------------------------------------------ the state

Cur == [publishers |-> publishers, objs |-> objs]

\* what get_topic_type can return
TopicTypes == TypeNames \cup {None}

\* what a call on topic t can get from get_topic_type: only the constructor
\* asks, so a call that finds the topic's key asks nothing
Asked(t) == IF in_publishers(Cur, t) THEN {None} ELSE TopicTypes

InBounds(G) == \A i \in 1..MaxPub : Len(G.objs[i].msg_buffer) <= MaxBuf

Init ==
    /\ publishers = [t \in Topics |-> 0]
    /\ objs = [i \in 1..MaxPub |-> FreeObj]
    /\ now = 0
    /\ threads = [th \in Threads |-> IdleFrame]
    /\ last = Result(IdleFrame)
    /\ live = [t \in Topics |-> {}]
    /\ torn = {}
    /\ listener = NewListener
    /\ connections = {}
    /\ received = [p \in Peers |-> <<>>]
    /\ ctor = "idle"
    /\ pub = [pc |-> "idle", msg |-> 0]
    /\ sub = [p \in Peers |-> AwayFrame]

\* A whole call, from its first statement to its return; tt is what
\* get_topic_type returns if the call asks. With hist the history keeps the
\* msg_type argument of the call and the torn topics; without, it does not.
Call(F, tt, hist) ==
    \E r \in {Run(Cur, F, tt, now)} :
        /\ r.F.pc = "done"
        /\ InBounds(r.G)
        /\ publishers' = r.G.publishers
        /\ objs' = r.G.objs
        /\ last' = IF hist THEN Result(r.F)
                   ELSE [Result(r.F) EXCEPT !.msg_type = None]
        /\ live' = LiveAfter(live, r.F)
        /\ torn' = IF hist THEN TornAfter(torn, Cur, r.G) ELSE torn
        /\ UNCHANGED <<now, threads, lvars>>

Register(c, t, ty, tt, hist) ==
    Call(NewFrame("register", c, t, ty, None), tt, hist)

Unregister(c, t, hist) ==
    Call(NewFrame("unregister", c, t, None, None), None, hist)

UnregisterAll(c, hist) ==
    Call(NewFrame("unregister_all", c, None, None, None), None, hist)

Publish(c, t, m, tt, hist) ==
    Call(NewFrame("publish", c, t, None, m), tt, hist)

\* time() advances
Tick ==
    /\ now < MaxTime
    /\ now' = now + 1
    /\ UNCHANGED <<publishers, objs, threads, last, live, torn, lvars>>

\* The calls of the clients on the topics TT, one call at a time.
Calls(TT, hist) ==
    \/ \E c \in Clients, t \in TT, ty \in TopicTypes :
            \E tt \in Asked(t) : Register(c, t, ty, tt, hist)
    \/ \E c \in Clients, t \in TT : Unregister(c, t, hist)
    \/ \E c \in Clients : UnregisterAll(c, hist)
    \/ \E c \in Clients, t \in TT, m \in Msgs :
            \E tt \in Asked(t) : Publish(c, t, m, tt, hist)

\* One topic, and the clock: every call runs to its return before the next.
OneTopic == {"/a"}

Next == Calls(OneTopic, TRUE) \/ Tick

Spec == Init /\ [][Next]_vars

\* Both topics, inside the first time unit after the start, with the
\* shorter history.
NextTopics == Calls(Topics, FALSE)

SpecTopics == Init /\ [][NextTopics]_vars

\* ---------------------------------------------- interleaved callers

\* Each thread serves one client (one connection). The manager takes no
\* lock, so the statements of the threads' calls interleave.
ClientOf(th) == IF th = 1 THEN "A" ELSE "B"

CTypes == {None, "std_msgs/String"}

CFrames(th) ==
    {NewFrame("register", ClientOf(th), t, ty, None) :
        t \in OneTopic, ty \in CTypes}
    \cup {NewFrame("unregister", ClientOf(th), t, None, None) : t \in OneTopic}
    \cup {NewFrame("unregister_all", ClientOf(th), None, None, None)}
    \cup {NewFrame("publish", ClientOf(th), t, None, "m1") : t \in OneTopic}

\* the object ids the frames hold
Refs(fs) == {fs[th].obj : th \in Threads} \ {0}

\* A thread enters a call.
StartC(th) ==
    /\ threads[th].pc = "idle"
    /\ \E F \in CFrames(th) : threads' = [threads EXCEPT ![th] = F]
    /\ UNCHANGED <<publishers, objs, now, last, live, torn, lvars>>

\* A thread executes the statement it is at.
StepC(th) ==
    /\ threads[th].pc \notin {"idle", "done"}
    /\ \E tt \in (IF threads[th].pc = "L238" THEN CTypes ELSE {None}) :
         \E s \in {Step(Cur, threads[th], tt, now)} :
            \E fs \in {[threads EXCEPT ![th] = s.F]} :
               \E G \in {Collect(s.G, Refs(fs))} :
                  /\ s.F.pc # "stuck"
                  /\ InBounds(G)
                  /\ publishers' = G.publishers
                  /\ objs' = G.objs
                  /\ threads' = fs
                  /\ UNCHANGED <<now, last, live, torn, lvars>>

\* A thread's call returns (or raises) to its caller.
ReturnC(th) ==
    /\ threads[th].pc = "done"
    /\ threads' = [threads EXCEPT ![th] = IdleFrame]
    /\ UNCHANGED <<publishers, objs, now, last, live, torn, lvars>>

NextC == \E th \in Threads : StartC(th) \/ StepC(th) \/ ReturnC(th)

SpecC == Init /\ [][NextC]_vars

\* ------------------------------- one listener and its transport

\* SpecL: one MultiPublisher is constructed and then published on by one
\* thread, while peers connect. rospy runs every inbound connection in a
\* thread of its own, which adds the connection to the publisher and then
\* calls peer_subscribe of the subscriber listeners; the publishing thread,
\* the connection threads and the clock interleave statement by statement.

\* the transport hands msg to the peers ps, as live traffic or as replay
Deliver(rcv, ps, kind, msg) ==
    [p \in Peers |->
        IF p \in ps THEN Append(rcv[p], [kind |-> kind, msg |-> msg])
        ELSE rcv[p]]

\* __init__, lines 130-131: the rospy Publisher exists from here on, and
\* peers can connect to it
Construct ==
    /\ ctor = "idle"
    /\ ctor' = "L35"
    /\ UNCHANGED <<publishers, objs, now, threads, last, live, torn,
                   listener, connections, received, pub, sub>>

\* __init__, line 132: one statement of attach
AttachStep ==
    /\ ctor \in {"L35", "L37", "L40", "L41", "L42", "L43"}
    /\ listener' = CASE ctor = "L35" -> attach_35(listener)
                      [] ctor = "L37" -> attach_37(listener)
                      [] ctor = "L40" -> attach_40(listener)
                      [] ctor = "L41" -> attach_41(listener, now)
                      [] ctor = "L42" -> attach_42(listener)
                      [] ctor = "L43" -> attach_43(listener)
    /\ ctor' = CASE ctor = "L35" -> "L37"
                  [] ctor = "L37" -> "L40"
                  [] ctor = "L40" -> "L41"
                  [] ctor = "L41" -> "L42"
                  [] ctor = "L42" -> "L43"
                  [] ctor = "L43" -> "done"
    /\ UNCHANGED <<publishers, objs, now, threads, last, live, torn,
                   connections, received, pub, sub>>

\* The publishing thread calls MultiPublisher.publish with the next
\* message; the object is not reachable before its constructor returned.
PubStart ==
    /\ ctor = "done"
    /\ pub.pc = "idle"
    /\ pub.msg < MaxMsg
    /\ pub' = [pc |-> "L169", msg |-> pub.msg + 1]
    /\ UNCHANGED <<publishers, objs, now, threads, last, live, torn,
                   listener, connections, received, ctor, sub>>

\* MultiPublisher.publish, lines 169-176, with detach and publish_override:
\* the statements that do not send
PubStep ==
    /\ pub.pc \in {"L169", "L48", "L49", "L51", "L176", "L78", "L79"}
    /\ listener' = CASE pub.pc = "L48" -> detach_48(listener)
                      [] pub.pc = "L49" -> detach_49(listener)
                      [] pub.pc = "L51" -> detach_51(listener)
                      [] pub.pc = "L79" ->
                            publish_override_79(listener, pub.msg)
                      [] OTHER -> listener
    /\ pub' = [pub EXCEPT !.pc =
                  CASE pub.pc = "L169" ->
                          IF listener.attached /\ timed_out(listener, now)
                          THEN "L48" ELSE "L176"
                    [] pub.pc = "L48" -> "L49"
                    [] pub.pc = "L49" -> "L51"
                    [] pub.pc = "L51" -> "L176"
                    [] pub.pc = "L176" ->
                          IF listener.hooked THEN "L78" ELSE "L179"
                    [] pub.pc = "L78" -> publish_override_78(listener, now)
                    [] pub.pc = "L79" -> "L82"]
    /\ UNCHANGED <<publishers, objs, now, threads, last, live, torn,
                   connections, received, ctor, sub>>

\* line 179 on a publisher that is not hooked, or line 82: the rospy
\* publish, which writes the message to every connection
PubSend ==
    /\ pub.pc \in {"L179", "L82"}
    /\ received' = Deliver(received, connections, "live", pub.msg)
    /\ pub' = [pub EXCEPT !.pc = "idle"]
    /\ UNCHANGED <<publishers, objs, now, threads, last, live, torn,
                   listener, connections, ctor, sub>>

\* A peer's connection is added to the publisher.
Connect(p) ==
    /\ ctor # "idle"
    /\ sub[p].pc = "away"
    /\ connections' = connections \cup {p}
    /\ sub' = [sub EXCEPT ![p].pc = "added"]
    /\ UNCHANGED <<publishers, objs, now, threads, last, live, torn,
                   listener, received, ctor, pub>>

\* The connection thread calls the subscriber listeners.
Callback(p) ==
    /\ sub[p].pc = "added"
    /\ sub' = [sub EXCEPT ![p].pc =
                  IF listener.listening THEN "L62" ELSE "nocall"]
    /\ UNCHANGED <<publishers, objs, now, threads, last, live, torn,
                   listener, connections, received, ctor, pub>>

\* One statement of peer_subscribe in the connection thread of p.
SubStep(p) ==
    /\ sub[p].pc \in {"L62", "L63", "L66"}
    /\ \E r \in {CASE sub[p].pc = "L62" ->
                       peer_subscribe_62(listener, sub[p], now)
                  [] sub[p].pc = "L63" ->
                       peer_subscribe_63(listener, sub[p])
                  [] sub[p].pc = "L66" ->
                       peer_subscribe_66(listener, sub[p])} :
          /\ listener' = r.l
          /\ sub' = [sub EXCEPT ![p] = r.f]
          /\ received' = IF sub[p].pc = "L66" /\ r.out # <<>>
                         THEN Deliver(received, {p}, "replay", r.out[1])
                         ELSE received
    /\ UNCHANGED <<publishers, objs, now, threads, last, live, torn,
                   connections, ctor, pub>>

NextL ==
    \/ Construct \/ AttachStep
    \/ PubStart \/ PubStep \/ PubSend
    \/ \E p \in Peers : Connect(p) \/ Callback(p) \/ SubStep(p)
    \/ Tick

SpecL == Init /\ [][NextL]_vars

\* ------------------------------------------------------- the claims

\* The calls as functions of the current state: what each would return, and
\* the state it would leave, were it made now.
DoRegister(c, t, ty, tt) ==
    Run(Cur, NewFrame("register", c, t, ty, None), tt, now)

DoUnregister(c, t) ==
    Run(Cur, NewFrame("unregister", c, t, None, None), None, now)

DoPublish(c, t, m, tt) ==
    Run(Cur, NewFrame("publish", c, t, None, m), tt, now)

DoUnregisterAll(c) ==
    Run(Cur, NewFrame("unregister_all", c, None, None, None), None, now)

\* the open transport endpoints of topic t
OpenOn(G, t) == {i \in 1..MaxPub : G.objs[i].open /\ G.objs[i].topic = t}

\* the client set of every object
ClientSets(G) == [i \in 1..MaxPub |-> G.objs[i].clients]

\* C1 (Sharing): while clients that registered on a topic have not all
\* unregistered, the registry holds the topic's one endpoint, that endpoint
\* is the only open transport endpoint of the topic, its client set is
\* exactly those clients and has_clients() is true; a further successful
\* register on the topic constructs nothing and keeps the same endpoint.
C1_Sharing ==
    \A t \in Topics :
        live[t] # {} =>
            /\ in_publishers(Cur, t)
            /\ has_clients(objs[publishers[t]])
            /\ objs[publishers[t]].clients = live[t]
            /\ OpenOn(Cur, t) = {publishers[t]}
            /\ \A c \in Clients, ty \in TopicTypes :
                  \A r \in {DoRegister(c, t, ty, None)} :
                     r.F.exc = "none" =>
                        /\ ~r.F.made
                        /\ r.G.publishers = publishers
                        /\ OpenOn(r.G, t) = {publishers[t]}

\* Both clients share the endpoint of a topic, and the register call of the
\* second one constructed nothing.
C1_Witness ==
    /\ last.op = "register" /\ last.exc = "none" /\ ~last.made
    /\ live[last.topic] = Clients
    /\ objs[publishers[last.topic]].clients = Clients

\* C2: at any time a topic has at most one open transport endpoint, and
\* when no call is running every open transport endpoint is the one the
\* registry holds for its topic.
C2_OneEndpointPerChannel ==
    /\ \A t \in Topics : Cardinality(OpenOn(Cur, t)) <= 1
    /\ (\A th \in Threads : threads[th].pc = "idle") =>
          \A i \in 1..MaxPub :
             objs[i].open => publishers[objs[i].topic] = i

\* C3: a publish call never finds the key of its topic deleted between its
\* register step and its publish step (a KeyError at line 292, after the
\* call has registered its client), and never sends on a transport endpoint
\* that has been closed.
C3_PublishSafeAgainstRemoval ==
    \A th \in Threads :
        (threads[th].op = "publish" /\ threads[th].pc = "done") =>
            /\ ~(threads[th].exc = "KeyError" /\ threads[th].reg)
            /\ threads[th].exc # "ClosedHandle"

\* C4 (Teardown and re-entry): an unregister call of the only client of a
\* topic closes the endpoint and deletes the topic's key in that call; a
\* successful register on a topic without a key constructs a new object in
\* a free heap slot, with an open transport endpoint and an attached
\* listener whose msg_buffer is empty and whose established_time is now.
C4_TeardownAndReentry ==
    \A t \in Topics, c \in Clients :
        /\ (in_publishers(Cur, t) /\ objs[publishers[t]].clients = {c}) =>
              \A r \in {DoUnregister(c, t)} :
                 /\ r.F.exc = "none" /\ r.F.closed
                 /\ ~in_publishers(r.G, t)
                 /\ OpenOn(r.G, t) = {}
        /\ ~in_publishers(Cur, t) =>
              \A ty \in TopicTypes, tt \in Asked(t) :
                 \A r \in {DoRegister(c, t, ty, tt)} :
                    r.F.exc = "none" =>
                       /\ r.F.made
                       /\ in_publishers(r.G, t)
                       /\ IsFree(objs[r.G.publishers[t]])
                       /\ OpenOn(r.G, t) = {r.G.publishers[t]}
                       /\ r.G.objs[r.G.publishers[t]] =
                             [topic |-> t,
                              msg_class |->
                                 get_message_class(init_msg_type(ty, tt)),
                              clients |-> {c},
                              open |-> TRUE,
                              attached |-> TRUE,
                              established_time |-> now,
                              msg_buffer |-> <<>>]

\* A register call re-entered a topic that had been torn down: the new
\* listener is attached, its buffer is empty and its window starts now,
\* later than the start.
C4_Witness ==
    /\ last.op = "register" /\ last.exc = "none" /\ last.made
    /\ last.topic \in torn
    /\ now > 0
    /\ objs[publishers[last.topic]].attached
    /\ objs[publishers[last.topic]].established_time = now
    /\ objs[publishers[last.topic]].msg_buffer = <<>>

\* C5: a register call that raises leaves the registry map and every object
\* as they were, constructs nothing and adds its client nowhere.
C5_FailedRegisterLeavesRegistry ==
    \A c \in Clients, t \in Topics, ty \in TopicTypes :
        \A tt \in Asked(t) :
            \A r \in {DoRegister(c, t, ty, tt)} :
                r.F.exc # "none" => (r.G = Cur /\ ~r.F.made /\ ~r.F.reg)

\* A register call raised on a topic that has an endpoint, with another
\* endpoint on the other topic.
C5_Witness ==
    /\ last.op = "register" /\ last.exc # "none"
    /\ \A t \in Topics : in_publishers(Cur, t)

\* C6: a publish call that raises MalformedMessage leaves the registry map
\* and every client set as they were.
C6_FailedPublishLeavesRegistry ==
    [][(last'.op = "publish" /\ last'.exc = "MalformedMessage") =>
          (publishers' = publishers /\ ClientSets(Cur)' = ClientSets(Cur))]_vars

\* C7, as claimed: on a topic whose endpoint has type T1, register with any
\* T2 other than T1 raises TypeConflict and adds no client; register with
\* T1 succeeds and adds the client.
C7_AnyOtherTypeConflicts ==
    \A t \in Topics, c \in Clients, ty \in TypeNames :
        in_publishers(Cur, t) =>
            \A r \in {DoRegister(c, t, ty, None)} :
                IF ty # objs[publishers[t]].msg_class._type
                THEN r.F.exc = "TypeConflictException" /\ r.G = Cur
                ELSE /\ r.F.exc = "none"
                     /\ r.G = SetObj(Cur, publishers[t],
                                     register_client(objs[publishers[t]], c))

\* C7, amended: a loadable T2 other than T1 raises TypeConflict, a T2 the
\* loader cannot load raises the loader's error, and neither adds a client;
\* register with T1 succeeds and only adds the client.
C7_TypeConsistency ==
    \A t \in Topics, c \in Clients, ty \in TypeNames :
        in_publishers(Cur, t) =>
            \A r \in {DoRegister(c, t, ty, None)} :
                IF ty # objs[publishers[t]].msg_class._type
                THEN /\ r.F.exc = IF ty \in LoadableTypes
                                  THEN "TypeConflictException"
                                  ELSE "LoaderError"
                     /\ r.G = Cur
                ELSE /\ r.F.exc = "none"
                     /\ r.G.publishers = publishers
                     /\ r.G.objs =
                           [objs EXCEPT ![publishers[t]].clients = @ \cup {c}]

\* A register call with another loadable type raised TypeConflict on a
\* topic whose endpoint already has a client.
C7_Witness ==
    /\ last.op = "register" /\ last.exc = "TypeConflictException"
    /\ in_publishers(Cur, last.topic)
    /\ last.msg_type \in LoadableTypes
    /\ last.msg_type # objs[publishers[last.topic]].msg_class._type
    /\ last.client_id \notin objs[publishers[last.topic]].clients

\* C8: on a topic without a key, for which the transport reports the
\* loadable type E, register with a loadable type T other than E raises
\* TypeConflict and nothing else.
C8_CreationTypeConflict ==
    \A t \in Topics, c \in Clients, T \in LoadableTypes, E \in LoadableTypes :
        (~in_publishers(Cur, t) /\ T # E) =>
            DoRegister(c, t, T, E).F.exc = "TypeConflictException"

\* C9, as claimed: register with no type on a topic without a key raises
\* TopicNotEstablished when the transport reports no type, and otherwise
\* creates the endpoint with the reported type; on a topic with a key it
\* succeeds and keeps the endpoint's type.
C9_InferenceAlwaysCreates ==
    \A t \in Topics, c \in Clients, tt \in TopicTypes :
        \A r \in {DoRegister(c, t, None, tt)} :
            IF in_publishers(Cur, t)
            THEN /\ r.F.exc = "none"
                 /\ r.G.publishers = publishers
                 /\ r.G.objs[publishers[t]].msg_class =
                       objs[publishers[t]].msg_class
            ELSE IF tt = None
                 THEN r.F.exc = "TopicNotEstablishedException"
                 ELSE /\ r.F.exc = "none"
                      /\ in_publishers(r.G, t)
                      /\ r.G.objs[r.G.publishers[t]].msg_class._type = tt

\* C9, amended: with a reported type the loader cannot load, the loader's
\* error is raised and the topic gets no key.
C9_Inference ==
    \A t \in Topics, c \in Clients, tt \in TopicTypes :
        \A r \in {DoRegister(c, t, None, tt)} :
            IF in_publishers(Cur, t)
            THEN /\ r.F.exc = "none"
                 /\ r.G.publishers = publishers
                 /\ r.G.objs[publishers[t]].msg_class =
                       objs[publishers[t]].msg_class
            ELSE IF tt = None
                 THEN r.F.exc = "TopicNotEstablishedException"
                 ELSE IF tt \notin LoadableTypes
                 THEN r.F.exc = "LoaderError" /\ ~in_publishers(r.G, t)
                 ELSE /\ r.F.exc = "none"
                      /\ in_publishers(r.G, t)
                      /\ r.G.objs[r.G.publishers[t]].msg_class._type = tt

\* A register call with no type constructed the endpoint of its topic.
C9_Witness ==
    /\ last.op = "register" /\ last.msg_type = None
    /\ last.exc = "none" /\ last.made
    /\ in_publishers(Cur, last.topic)
    /\ objs[publishers[last.topic]].msg_class._type \in LoadableTypes

\* C10 (Idempotent unregister): unregister of a client on a topic without
\* a key, or whose endpoint does not have the client, raises nothing and
\* leaves the registry map and every object as they were.
C10_IdempotentUnregister ==
    \A c \in Clients, t \in Topics :
        (~in_publishers(Cur, t) \/ c \notin objs[publishers[t]].clients) =>
            \A r \in {DoUnregister(c, t)} :
                r.F.exc = "none" /\ r.G = Cur /\ ~r.F.closed /\ ~r.F.removed

\* An unregister call of a client the endpoint of the topic does not have
\* returned, and the endpoint is still open with its client.
C10_Witness ==
    /\ last.op = "unregister" /\ last.exc = "none"
    /\ ~last.removed /\ ~last.closed
    /\ in_publishers(Cur, last.topic)
    /\ objs[publishers[last.topic]].open
    /\ objs[publishers[last.topic]].clients = Clients \ {last.client_id}

\* what peer_publish handed to peer p, in order, and everything p got
IsReplay(e) == e.kind = "replay"

Replayed(p) ==
    LET r == SelectSeq(received[p], IsReplay)
    IN  [i \in 1..Len(r) |-> r[i].msg]

Got(p) == {received[p][i].msg : i \in 1..Len(received[p])}

\* peer_subscribe ran for p inside the window and has returned
Replayed_done(p) ==
    sub[p].pc = "done" /\ ~sub[p].late /\ sub[p].exc = "none"

\* C11 (Replay within the window): once peer_subscribe, having found the
\* listener not timed out, has returned for a peer, what it replayed to the
\* peer is a prefix of msg_buffer, in the order the messages were sent (the
\* publishing thread numbers them 1, 2, ...), and the peer has got every
\* message of msg_buffer, by replay or live, except the one the publishing
\* thread has appended and is about to hand to the transport at line 82.
C11_ReplayWithinWindow ==
    \A p \in Peers :
        Replayed_done(p) =>
            /\ Len(Replayed(p)) <= Len(listener.msg_buffer)
            /\ \A i \in 1..Len(Replayed(p)) :
                  /\ Replayed(p)[i] = listener.msg_buffer[i]
                  /\ \A j \in 1..Len(Replayed(p)) :
                        i < j => Replayed(p)[i] < Replayed(p)[j]
            /\ \A k \in 1..Len(listener.msg_buffer) :
                  \/ listener.msg_buffer[k] \in Got(p)
                  \/ pub.pc = "L82" /\ pub.msg = listener.msg_buffer[k]

\* Two messages were buffered and then replayed, in order, to a peer that
\* connected inside the window and got nothing live.
C11_Witness ==
    \E p \in Peers :
        /\ Replayed_done(p)
        /\ Replayed(p) = <<1, 2>>
        /\ Len(received[p]) = 2

\* C12 (No duplicate via replay): no peer gets the same message both live
\* and by replay.
C12_NoDuplicateViaReplay ==
    \A p \in Peers :
        \A i, j \in 1..Len(received[p]) :
            (received[p][i].kind = "live" /\ received[p][j].kind = "replay")
                => received[p][i].msg # received[p][j].msg

\* C13 (Buffering stops after the timeout): in a state where the listener
\* is timed out, no step appends to msg_buffer and no step replays a
\* message to a peer.
C13_NoBufferingAfterTimeout ==
    [][("established_time" \in listener.attrs /\ timed_out(listener, now)) =>
          /\ listener'.msg_buffer = listener.msg_buffer
          /\ \A p \in Peers : Replayed(p)' = Replayed(p)]_vars

\* C17: no statement of a connection thread (the connection being added,
\* the listeners being called, peer_subscribe) changes the listener: its
\* attached flag, the hook on publisher.publish, its place among the
\* subscriber listeners and msg_buffer stay as they are; a peer_subscribe
\* that found the listener timed out hands nothing to the peer; and
\* attached turns false only at line 51 of detach, called from line 170 of
\* MultiPublisher.publish in the publishing thread.
C17_PeerSubscribeNeverDetaches ==
    /\ [][(sub' # sub) => (listener' = listener)]_vars
    /\ [][(listener.attached /\ ~listener'.attached) =>
             (pub.pc = "L51" /\ pub'.pc = "L176")]_vars
    /\ [] \A p \in Peers : sub[p].late => Replayed(p) = <<>>

\* peer_subscribe returned for a peer having found the listener timed out,
\* with a message in the buffer: nothing was replayed and the listener is
\* still attached, hooked and listening.
C17_Witness ==
    \E p \in Peers :
        /\ sub[p].pc = "done" /\ sub[p].late
        /\ listener.msg_buffer # <<>>
        /\ Replayed(p) = <<>>
        /\ listener.attached /\ listener.hooked /\ listener.listening
        /\ timed_out(listener, now)

\* C18: no peer_subscribe that the transport calls while attach is running
\* finds an attribute of the listener (lock, established_time, msg_buffer)
\* not yet assigned.
C18_AttachInitialisedFirst ==
    \A p \in Peers : sub[p].exc # "AttributeError"

\* C14 (Implicit registration on publish): a publish call that returns
\* without raising leaves a key for its topic, its client in the client set
\* of the topic's endpoint and its message sent once to the transport; an
\* endpoint that the call had to construct has the type the transport
\* reported; without a key and without a reported type the call raises
\* TopicNotEstablished, sends nothing and changes nothing.
C14_ImplicitRegistration ==
    \A c \in Clients, t \in Topics, m \in Msgs :
        \A tt \in Asked(t) :
            \A r \in {DoPublish(c, t, m, tt)} :
                /\ r.F.exc = "none" =>
                      /\ in_publishers(r.G, t)
                      /\ c \in r.G.objs[r.G.publishers[t]].clients
                      /\ r.G.objs[r.G.publishers[t]].open
                      /\ r.F.sent = <<m>>
                      /\ r.F.reg
                      /\ IF in_publishers(Cur, t)
                         THEN /\ r.G.publishers = publishers
                              /\ ~r.F.made
                              /\ r.G.objs[publishers[t]].clients =
                                    objs[publishers[t]].clients \cup {c}
                         ELSE /\ r.F.made
                              /\ r.G.objs[r.G.publishers[t]].clients = {c}
                              /\ r.G.objs[r.G.publishers[t]].msg_class._type
                                    = tt
                /\ (~in_publishers(Cur, t) /\ tt = None) =>
                      /\ r.F.exc = "TopicNotEstablishedException"
                      /\ r.F.sent = <<>>
                      /\ r.G = Cur

\* A publish call of a client that had not registered constructed the
\* endpoint of its topic, registered the client and sent the message.
C14_Witness ==
    /\ last.op = "publish" /\ last.exc = "none"
    /\ last.made /\ last.reg
    /\ last.sent = <<"m1">>
    /\ in_publishers(Cur, last.topic)
    /\ objs[publishers[last.topic]].clients = {last.client_id}

\* C15: unregister_all(c) raises nothing; afterwards c is in no client
\* set, every topic whose endpoint had c as its only client has lost its
\* key and its endpoint is closed, and every other endpoint is the same
\* open object under the same key with its other clients unchanged.
C15_UnregisterAll ==
    \A c \in Clients :
        \A r \in {DoUnregisterAll(c)} :
            /\ r.F.exc = "none"
            /\ \A i \in 1..MaxPub : c \notin r.G.objs[i].clients
            /\ \A t \in Topics :
                  IF in_publishers(Cur, t)
                     /\ objs[publishers[t]].clients # {c}
                  THEN /\ r.G.publishers[t] = publishers[t]
                       /\ r.G.objs[publishers[t]] =
                             [objs[publishers[t]] EXCEPT !.clients = @ \ {c}]
                       /\ r.G.objs[publishers[t]].open
                  ELSE /\ ~in_publishers(r.G, t)
                       /\ OpenOn(r.G, t) = {}

\* An unregister_all call closed the endpoint of one topic, whose only
\* client was the caller, and left the endpoint of the other topic open
\* with the other client.
C15_Witness ==
    /\ last.op = "unregister_all" /\ last.exc = "none"
    /\ last.closed /\ last.removed
    /\ \E t, u \in Topics :
          /\ ~in_publishers(Cur, t)
          /\ in_publishers(Cur, u)
          /\ objs[publishers[u]].open
          /\ objs[publishers[u]].clients = Clients \ {last.client_id}

\* C16 (Lazy detach): MultiPublisher.publish that finds the listener
\* attached and timed out at line 169 runs detach before it converts and
\* sends; when detach returns, publisher.publish is the original publish
\* again, the listener is out of the subscriber listeners and attached is
\* false; and from then on no step attaches, hooks or lists the listener
\* again, appends to msg_buffer or takes the publishing thread through
\* publish_override.
C16_LazyDetach ==
    /\ [][(/\ pub.pc = "L169" /\ pub'.pc # "L169"
            /\ listener.attached /\ timed_out(listener, now))
              => pub'.pc = "L48"]_vars
    /\ [][(pub.pc = "L51" /\ pub'.pc # "L51") =>
              /\ pub'.pc = "L176"
              /\ ~listener'.attached
              /\ ~listener'.hooked
              /\ ~listener'.listening]_vars
    /\ [][(ctor = "done" /\ ~listener.attached) =>
              /\ ~listener'.attached
              /\ ~listener'.hooked
              /\ ~listener'.listening
              /\ listener'.msg_buffer = listener.msg_buffer
              /\ pub'.pc \notin {"L78", "L79", "L82"}]_vars

\* Message 1 was buffered inside the window; the publish of message 2,
\* after the window, detached the listener and sent the message to a
\* connected peer without buffering it.
C16_Witness ==
    /\ ctor = "done" /\ pub = [pc |-> "idle", msg |-> 2]
    /\ ~listener.attached /\ ~listener.hooked /\ ~listener.listening
    /\ listener.msg_buffer = <<1>>
    /\ \E p \in Peers : [kind |-> "live", msg |-> 2] \in
                            {received[p][i] : i \in 1..Len(received[p])}

\* C19: between calls, every topic with a key has an endpoint that is open
\* and has a client, and no heap object is open without being the endpoint
\* of its topic's key.
C19_NoClientlessEndpoint ==
    /\ \A t \in Topics :
          in_publishers(Cur, t) =>
             /\ objs[publishers[t]].topic = t
             /\ objs[publishers[t]].open
             /\ has_clients(objs[publishers[t]])
    /\ \A i \in 1..MaxPub :
          objs[i].open => publishers[objs[i].topic] = i

\* A call raised after an endpoint had been torn down, and the registry
\* holds an open endpoint with a client.
C19_Witness ==
    /\ last.exc # "none"
    /\ torn # {}
    /\ \E t \in Topics :
          /\ in_publishers(Cur, t)
          /\ objs[publishers[t]].open
          /\ objs[publishers[t]].clients # {}

\* the state after client c has registered k more times on topic t, by
\* register(c, t, ty) or by publish(c, t, "m1"), every one of the calls
\* returning without raising; NoState if one raises
NoState == [publishers |-> <<>>, objs |-> <<>>]

RECURSIVE RegisterTimes(_, _, _, _, _, _, _)
RegisterTimes(G, op, c, t, ty, tt, k) ==
    IF k = 0 \/ G = NoState THEN G
    ELSE LET F == IF op = "publish" THEN NewFrame(op, c, t, None, "m1")
                  ELSE NewFrame(op, c, t, ty, None)
             r == Run(G, F, IF in_publishers(G, t) THEN None ELSE tt, now)
         IN  IF r.F.exc # "none" THEN NoState
             ELSE RegisterTimes(r.G, op, c, t, ty, tt, k - 1)

\* C20: after a client has registered (or published) k >= 1 times on a
\* topic, the registry and the client sets are what they are after the
\* first of the calls, and one unregister removes the client; if no other
\* client is left the endpoint is closed and the key deleted, otherwise the
\* endpoint stays with the others.
C20_MembershipIsASet ==
    \A c \in Clients, t \in Topics :
        \A tt \in Asked(t),
           a \in {<<"register", ty>> : ty \in TopicTypes}
                    \cup {<<"publish", None>>} :
            \A G1 \in {RegisterTimes(Cur, a[1], c, t, a[2], tt, 1)} :
                G1 # NoState =>
                    \A k \in 1..MaxReg :
                        \A G \in {RegisterTimes(G1, a[1], c, t, a[2], tt,
                                                k - 1)} :
                            /\ G # NoState
                            /\ G.publishers = G1.publishers
                            /\ ClientSets(G) = ClientSets(G1)
                            /\ c \in G.objs[G.publishers[t]].clients
                            /\ \A r \in {Run(G, NewFrame("unregister", c, t,
                                                          None, None),
                                              None, now)} :
                                  /\ r.F.exc = "none" /\ r.F.removed
                                  /\ \A i \in 1..MaxPub :
                                        \/ c \notin r.G.objs[i].clients
                                        \/ r.G.objs[i].topic # t
                                  /\ IF G.objs[G.publishers[t]].clients = {c}
                                     THEN /\ r.F.closed
                                          /\ ~in_publishers(r.G, t)
                                          /\ OpenOn(r.G, t) = {}
                                     ELSE /\ ~r.F.closed
                                          /\ r.G.publishers = G.publishers
                                          /\ r.G.objs[G.publishers[t]] =
                                                unregister_client(
                                                  G.objs[G.publishers[t]], c)

\* A client that was the only client of an endpoint registered on it once
\* more, and is still its only client.
C20_Witness ==
    /\ last.op \in {"register", "publish"} /\ last.exc = "none"
    /\ last.reg /\ ~last.made
    /\ in_publishers(Cur, last.topic)
    /\ objs[publishers[last.topic]].clients = {last.client_id}
    /\ live[last.topic] = {last.client_id}

====
